---- MODULE Spec2Model ----
(***************************************************************************)
(* Model of the couples-aware deferred-acceptance matcher                  *)
(* (src/src/matcher.rs).  The recursion of attempt_single_match,           *)
(* attempt_couples_match and retry_match is unrolled into a stack of       *)
(* pending calls: every call made by these functions is the last thing     *)
(* they do (possibly followed by one more call), so the continuation of a  *)
(* call is exactly the list of calls that still have to be made.           *)
(*                                                                         *)
(* Indices into Vecs are 1-based here (0-based in the source); 0 stands    *)
(* for Option::None wherever the source uses Option<usize> / Option<u32>.  *)
(***************************************************************************)
EXTENDS Integers, Sequences, FiniteSets, TLC

\* ---------------------------------------------------------------- bounds
NumApplicants == 3
NumPrograms == 2
MaxCapacity == 2
MaxRank == 2
\* the calls of attempt_couples_match and retry_match followed in one run
MaxCalls == 16
\* the calls of run_match on one instance
MaxRuns == 3

None == 0


VARIABLES
    units,        \* input: Vec<Couple<A>>, each <<a, b>>, b = None for a singleton
    a_couple,     \* input: Applicant.couple   (Option<u32>)
    a_ranking,    \* input: Applicant.ranking  (Vec<u32> of program ids)
    p_capacity,   \* input: Program.capacity
    p_ranking,    \* input: Program.ranking    (Vec<u32> of applicant ids)
    matches,      \* Matcher.matches: Vec of [p |-> program, r |-> roster]
    unmatched_a,  \* Matcher.unmatched_a
    unmatched_p,  \* Matcher.unmatched_p
    next_unit,    \* position of the iterator a.iter_mut() in run_match
    stack,        \* calls still to be made for the unit being processed
    errors,       \* the Err results collected so far, in unit order
    pc,           \* "new", "loop", "done" (run_match returned), "panic"
    result,       \* what run_match returned
    last,         \* what the last matcher step did (history, read by properties only)
    seen,         \* the kinds of steps taken so far (history, read by properties only)
    calls,        \* the number of calls made so far in this run (history)
    depth,        \* the number of calls made so far for the current unit (history)
    unfilled,     \* what unfilled_positions() returned, NotCalled before it is called
    run,          \* the number of this run_match call on the instance
    first_run,    \* inputs and outcome of the first run_match call (history)
    prior,        \* the state the instance was in when this call began (history)
    all_first_choice,   \* run_simulation's count of first choices, NotCalled before
    a_competitiveness,  \* Applicant.competitiveness, in thousandths
    a_applications,     \* Applicant.applications
    p_competitiveness,  \* Program.competitiveness, in thousandths
    strategy,           \* RankStrategy, the multipliers in hundredths
    distribution        \* RankDistribution, the shares in tenths

vars == <<units, a_couple, a_ranking, p_capacity, p_ranking, matches, unmatched_a,
          unmatched_p, next_unit, stack, errors, pc, result, last, seen,
          calls, depth, unfilled, run, first_run, prior, all_first_choice,
          a_competitiveness, a_applications, p_competitiveness, strategy, distribution>>
\* what the generator reads besides the lists: rank() (ranker.rs) is the only
\* function that does
population == <<a_competitiveness, a_applications, p_competitiveness, strategy,
                distribution>>
inputs == <<units, a_couple, a_ranking, p_capacity, p_ranking, population>>

\* the applicants and the programs passed to run_match (a program's id is its
\* place in the Vec<P>)
Applicants == DOMAIN a_couple
Programs == DOMAIN p_capacity

\* ------------------------------------------------------- sequence helpers
Range(s) == {s[i] : i \in 1..Len(s)}

\* Iterator::position: the first index holding x, None when there is none
Position(s, x) ==
    IF \E i \in 1..Len(s) : s[i] = x
    THEN CHOOSE i \in 1..Len(s) : s[i] = x /\ \A j \in 1..(i - 1) : s[j] # x
    ELSE None

\* Vec::swap_remove: the last element takes the place of the removed one
swap_remove(s, i) ==
    IF i = Len(s) THEN SubSeq(s, 1, Len(s) - 1)
    ELSE [SubSeq(s, 1, Len(s) - 1) EXCEPT ![i] = s[Len(s)]]

\* a lookup that falls back on the first entry for an id that is in no entry
FindProgram_or_first(m, id) ==
    IF \E i \in 1..Len(m) : m[i].p = id
    THEN CHOOSE i \in 1..Len(m) : m[i].p = id /\ \A j \in 1..(i - 1) : m[j].p # id
    ELSE 1

\* self.matches.iter().find(|m| m.0.id() == id): index in matches, None if absent
FindProgram(m, id) ==
    IF \E i \in 1..Len(m) : m[i].p = id
    THEN CHOOSE i \in 1..Len(m) : m[i].p = id /\ \A j \in 1..(i - 1) : m[j].p # id
    ELSE None

\* ------------------------------------------------------- calls and outcomes
\* a pending call: retry_match(a) or attempt_couples_match(a, Some(b))
Retry(a) == [op |-> "retry", a |-> a, b |-> None]
Couples(a, b) == [op |-> "couples", a |-> a, b |-> b]

\* What one step did: the branch taken (tag), the applicant(s) it was called
\* for (a, b), the program(s) of the rank-list position k it ended at (p0, p1),
\* the applicants it displaced (out) and the partner it pulled out of a roster.
NoStep == [tag |-> "none", a |-> None, b |-> None, p0 |-> None, p1 |-> None,
           out |-> <<>>, k |-> 0, pulled |-> None]
Step(tag, a, b, p0, p1, out, k) ==
    [tag |-> tag, a |-> a, b |-> b, p0 |-> p0, p1 |-> p1, out |-> out, k |-> k,
     pulled |-> None]
Pulled(step, partner) == [step EXCEPT !.pulled = partner]

\* The effect of one call up to the calls it makes itself: the new matches and
\* unmatched_a, the calls it makes (t, in order), and how it ended:
\* "ok" (it goes on to the calls t), "err" (MatchError e, propagated by ?),
\* "panic" (a failed assert! or unwrap of None; e names it).
NoError == [kind |-> "none", id |-> None]
Ok(m, u, t, step) == [m |-> m, u |-> u, t |-> t, st |-> "ok", e |-> NoError, step |-> step]
Err(m, u, kind, id, step) ==
    [m |-> m, u |-> u, t |-> <<>>, st |-> "err", e |-> [kind |-> kind, id |-> id],
     step |-> step]
Panic(m, u, why, step) ==
    [m |-> m, u |-> u, t |-> <<>>, st |-> "panic", e |-> [kind |-> why, id |-> None],
     step |-> step]

\* ------------------------------------------------------ attempt_single_match
\* a filter that lets a program that does not rank the applicant through
not_ranked_any(rank_position, capacity) == capacity = 0

\* line 60: the program did not rank the applicant, or has no seat at all
not_ranked(rank_position, capacity) == rank_position = None \/ capacity = 0

\* an opening test that admits one applicant more than the capacity
has_opening_when_full(capacity, len) == capacity >= len

\* line 64: the program has an opening
has_opening(capacity, len) == capacity > len

\* a rank map that looks up every id of the program's ranking among the
\* applicants and fails on the first that is none
rank_map_err_ranking(roster, ranking) ==
    IF \E j \in 1..Len(ranking) : ranking[j] \notin DOMAIN a_couple
    THEN ranking[CHOOSE j \in 1..Len(ranking) :
                     /\ ranking[j] \notin DOMAIN a_couple
                     /\ \A h \in 1..(j - 1) : ranking[h] \in DOMAIN a_couple]
    ELSE None

\* lines 70-78: the first roster member the program's ranking does not hold
\* (collect::<Result<..>> stops at the first Err), None when all are ranked
rank_map_err(roster, ranking) ==
    IF \E i \in 1..Len(roster) : Position(ranking, roster[i]) = None
    THEN roster[CHOOSE i \in 1..Len(roster) :
                    /\ Position(ranking, roster[i]) = None
                    /\ \A j \in 1..(i - 1) : Position(ranking, roster[j]) # None]
    ELSE None

\* lines 70-78: (tentative match index, rank index) of every roster member
rank_map(roster, ranking) ==
    [i \in 1..Len(roster) |-> <<i, Position(ranking, roster[i])>>]

\* a choice of the member that came first instead of the weakest
max_by_rank_first(map) == map[1]

\* line 79: Iterator::max_by returns the last of several equally maximal elements
max_by_rank(map) ==
    map[CHOOSE i \in 1..Len(map) :
            /\ \A j \in 1..Len(map) : map[j][2] <= map[i][2]
            /\ \A j \in (i + 1)..Len(map) : map[j][2] < map[i][2]]

\* a comparison that lets an applicant ranked after the weakest member displace it
prefers_worse(rank, weakest_rank) == rank > weakest_rank

\* a comparison that lets every applicant displace the weakest member
prefers_always(rank, weakest_rank) == rank # weakest_rank

\* line 80: the program prefers the applicant to its weakest member
prefers(rank, weakest_rank) == rank < weakest_rank

\* a pull that leaves the partner in the roster
pull_partner_kept(roster, i) == roster

\* lines 91, 187, 202, 236: the displaced applicant's partner leaves the roster
pull_partner(roster, i) == swap_remove(roster, i)

\* a walk that makes the applicant it could not place the whole pool
unmatched_single_replaced(u, a) == <<a>>

\* a walk that drops the applicant it could not place
unmatched_single_dropped(u, a) == u

\* line 103
unmatched_single(u, a) == Append(u, a)

\* a dispatch that makes no call for the displaced applicant
dispatch_displaced_dropped(m, i, r, w) ==
    [m |-> [m EXCEPT ![i].r = r], t |-> <<>>, pulled |-> None]

\* lines 86-99 (and 231-244): what is called for the one displaced applicant w,
\* given the roster r (after the newcomers were pushed) of the program at
\* matches index i
dispatch_displaced(m, i, r, w) ==
    LET c == a_couple[w]
        j == Position(r, c)
    IN  IF c = None
        THEN [m |-> [m EXCEPT ![i].r = r], t |-> <<Retry(w)>>, pulled |-> None]
        ELSE IF j # None
             THEN [m |-> [m EXCEPT ![i].r = pull_partner(r, j)], t |-> <<Couples(w, r[j])>>,
                   pulled |-> r[j]]
             ELSE [m |-> [m EXCEPT ![i].r = r], t |-> <<Retry(w)>>, pulled |-> None]

RECURSIVE single_walk(_, _, _, _)
\* lines 53-104: the loop over the applicant's ranking from position k on
single_walk(m, u, a, k) ==
    IF k > Len(a_ranking[a])
    THEN Ok(m, unmatched_single(u, a), <<>>, Step("single_unmatched", a, None, None, None, <<>>, k))
    ELSE
    LET program_id == a_ranking[a][k]
        i == FindProgram(m, program_id)
    IN  IF i = None
        THEN Err(m, u, "ProgramNotFound", program_id, Step("err", a, None, None, None, <<>>, k))
        ELSE
        LET program_ranking == p_ranking[m[i].p]
            capacity == p_capacity[m[i].p]
            roster == m[i].r
            rank_position == Position(program_ranking, a)
        IN  IF not_ranked(rank_position, capacity) THEN single_walk(m, u, a, k + 1)
            ELSE IF has_opening(capacity, Len(roster))
            THEN LET r == Append(roster, a)
                     st == Step("single_place", a, None, m[i].p, None, <<>>, k)
                 IN  IF Len(r) <= capacity
                     THEN Ok([m EXCEPT ![i].r = r], u, <<>>, st)
                     ELSE Panic([m EXCEPT ![i].r = r], u, "assert_capacity", st)
            ELSE IF rank_map_err(roster, program_ranking) # None
            THEN Err(m, u, "ApplicantNotFound", rank_map_err(roster, program_ranking),
                     Step("err", a, None, m[i].p, None, <<>>, k))
            ELSE IF roster = <<>>
            THEN Panic(m, u, "unwrap_max_by", Step("panic", a, None, m[i].p, None, <<>>, k))
            ELSE
            LET weakest == max_by_rank(rank_map(roster, program_ranking))
                weakest_index == weakest[1]
                weakest_rank == weakest[2]
            IN  IF prefers(rank_position, weakest_rank)
                THEN LET weakest_applicant == roster[weakest_index]
                         r == Append(swap_remove(roster, weakest_index), a)
                         d == dispatch_displaced(m, i, r, weakest_applicant)
                         st == Step("single_displace", a, None, m[i].p, None,
                                    <<weakest_applicant>>, k)
                     IN  IF Len(r) <= capacity
                         THEN Ok(d.m, u, d.t, Pulled(st, d.pulled))
                         ELSE Panic([m EXCEPT ![i].r = r], u, "assert_capacity", st)
                ELSE single_walk(m, u, a, k + 1)

\* an attempt that starts its walk at the second position of the list
attempt_single_match_from_second(m, u, a) ==
    IF a_couple[a] # None
    THEN Panic(m, u, "assert_single", Step("panic", a, None, None, None, <<>>, 0))
    ELSE single_walk(m, u, a, 2)

\* lines 48-105
attempt_single_match(m, u, a) ==
    IF a_couple[a] # None
    THEN Panic(m, u, "assert_single", Step("panic", a, None, None, None, <<>>, 0))
    ELSE single_walk(m, u, a, 1)

\* ----------------------------------------------------- attempt_couples_match
RECURSIVE sort_desc(_)
\* lines 152, 299: sort_by(|a, b| b.1.cmp(&a.1)), a stable sort by descending rank
sort_desc(map) ==
    IF map = <<>> THEN <<>>
    ELSE LET i == CHOOSE i \in 1..Len(map) :
                      /\ \A j \in 1..Len(map) : map[j][2] <= map[i][2]
                      /\ \A j \in 1..(i - 1) : map[j][2] < map[i][2]
         IN  <<map[i]>> \o sort_desc(SubSeq(map, 1, i - 1) \o SubSeq(map, i + 1, Len(map)))

\* a filter that does not ask whether the second program ranks the partner
pair_filtered_first_rank(rank0, capacity0, rank1, capacity1, same_program) ==
    \/ rank0 = None \/ capacity0 = 0
    \/ capacity1 = 0
    \/ (same_program /\ capacity0 = 1)

\* lines 132-134: the pair is skipped
pair_filtered(rank0, capacity0, rank1, capacity1, same_program) ==
    \/ rank0 = None \/ capacity0 = 0
    \/ rank1 = None \/ capacity1 = 0
    \/ (same_program /\ capacity0 = 1)

\* a comparison that asks only whether the first member is preferred
both_prefer_first(rank0, rank1, weak_rank) == rank0 < weak_rank

\* lines 163, 165, 221, 304: both members are preferred to the member of that rank
both_prefer(rank0, rank1, weak_rank) == rank0 < weak_rank /\ rank1 < weak_rank

\* lines 172-175, 319-322: the index of the second removal after the first
adjust_index(first_index, second_index) ==
    IF first_index < second_index THEN second_index - 1 ELSE second_index

\* lines 259-261, 282-284, 326-328: some roster holds an applicant whose couple
\* field equals the applicant's couple field
test_p(m, applicant) ==
    \E i \in 1..Len(m) : \E j \in 1..Len(m[i].r) :
        a_couple[m[i].r[j]] = a_couple[applicant]

\* a walk that sends only the first member of the couple to the pool
unmatched_couple_first_only(u, applicant, couple) == Append(u, applicant)

\* lines 338-339
unmatched_couple(u, applicant, couple) == Append(Append(u, applicant), couple)

\* lines 180-213: the calls made for the two applicants displaced from one program,
\* r being that program's roster after the couple was pushed
dispatch_two(m, i, r, w0, w1) ==
    LET keep == [m EXCEPT ![i].r = r]
        c0 == a_couple[w0]
        c1 == a_couple[w1]
        j0 == Position(r, c0)
        j1 == Position(r, c1)
    IN  IF c0 # None
        THEN IF c0 = w1
             THEN [m |-> keep, t |-> <<Couples(w0, w1)>>, pulled |-> None]
             ELSE IF j0 # None
             THEN [m |-> [m EXCEPT ![i].r = pull_partner(r, j0)],
                   t |-> <<Couples(w0, r[j0]), Retry(w1)>>, pulled |-> r[j0]]
             ELSE [m |-> keep, t |-> <<Retry(w1), Retry(w0)>>, pulled |-> None]
        ELSE IF c1 = None
             THEN [m |-> keep, t |-> <<Retry(w1), Retry(w0)>>, pulled |-> None]
             ELSE IF j1 # None
             THEN [m |-> [m EXCEPT ![i].r = pull_partner(r, j1)],
                   t |-> <<Retry(w0), Couples(w1, r[j1])>>, pulled |-> r[j1]]
             ELSE [m |-> keep, t |-> <<Retry(w1), Retry(w0)>>, pulled |-> None]

RECURSIVE couples_walk(_, _, _, _, _)

\* lines 156-264: both members rank the same program, at matches index i
same_program_step(m, u, a, b, k, i, rank0, rank1, r0_map) ==
    LET p == m[i].p
        capacity == p_capacity[p]
        roster == m[i].r
    IN
    IF Len(roster) > capacity
    THEN Panic(m, u, "u8_subtract_overflow", Step("panic", a, b, p, p, <<>>, k))
    ELSE
    LET available_spots == capacity - Len(roster) IN
    IF available_spots = 0 THEN
        IF Len(r0_map) < 1
        THEN Panic(m, u, "unwrap_worst", Step("panic", a, b, p, p, <<>>, k))
        ELSE IF ~both_prefer(rank0, rank1, r0_map[1][2]) THEN couples_walk(m, u, a, b, k + 1)
        ELSE IF Len(r0_map) < 2
        THEN Panic(m, u, "unwrap_worst", Step("panic", a, b, p, p, <<>>, k))
        ELSE IF ~both_prefer(rank0, rank1, r0_map[2][2]) THEN couples_walk(m, u, a, b, k + 1)
        ELSE
        LET weak_index0 == r0_map[1][1]
            weak_index1 == adjust_index(weak_index0, r0_map[2][1])
            weakest_applicant0 == roster[weak_index0]
            roster1 == swap_remove(roster, weak_index0)
            weakest_applicant1 == roster1[weak_index1]
            r == Append(Append(swap_remove(roster1, weak_index1), a), b)
            d == dispatch_two(m, i, r, weakest_applicant0, weakest_applicant1)
            st == Step("same_displace_two", a, b, p, p,
                       <<weakest_applicant0, weakest_applicant1>>, k)
        IN  IF Len(r) <= capacity
            THEN Ok(d.m, u, d.t, Pulled(st, d.pulled))
            ELSE Panic([m EXCEPT ![i].r = r], u, "assert_capacity", st)
    ELSE IF available_spots = 1 THEN
        IF Len(r0_map) < 1
        THEN Panic(m, u, "unwrap_worst", Step("panic", a, b, p, p, <<>>, k))
        ELSE IF ~both_prefer(rank0, rank1, r0_map[1][2]) THEN couples_walk(m, u, a, b, k + 1)
        ELSE
        LET weak_index == r0_map[1][1]
            weakest_applicant == roster[weak_index]
            r == Append(Append(swap_remove(roster, weak_index), a), b)
            d == dispatch_displaced(m, i, r, weakest_applicant)
            st == Step("same_displace_one", a, b, p, p, <<weakest_applicant>>, k)
        IN  IF Len(r) <= capacity
            THEN Ok(d.m, u, d.t, Pulled(st, d.pulled))
            ELSE Panic([m EXCEPT ![i].r = r], u, "assert_capacity", st)
    ELSE
        LET r == Append(Append(roster, a), b)
            m1 == [m EXCEPT ![i].r = r]
            st == Step("same_place", a, b, p, p, <<>>, k)
        IN  IF Len(r) > capacity THEN Panic(m1, u, "assert_capacity", st)
            ELSE IF ~test_p(m1, a) THEN Panic(m1, u, "assert_test_p", st)
            ELSE Ok(m1, u, <<>>, st)

\* lines 265-335: the members rank distinct programs, at matches indices i0 and i1
distinct_programs_step(m, u, a, b, k, i0, i1, rank0, rank1, r0_map) ==
    LET p0 == m[i0].p
        p1 == m[i1].p
        roster0 == m[i0].r
        roster1 == m[i1].r
    IN
    IF p0 = p1 THEN Panic(m, u, "assert_ne", Step("panic", a, b, p0, p1, <<>>, k))
    ELSE IF p_capacity[p0] > Len(roster0) /\ p_capacity[p1] > Len(roster1) THEN
        LET n0 == Append(roster0, a)
            n1 == Append(roster1, b)
            m1 == [m EXCEPT ![i0].r = n0, ![i1].r = n1]
            st == Step("distinct_place", a, b, p0, p1, <<>>, k)
        IN  IF Len(n0) > p_capacity[p0]
            THEN Panic([m EXCEPT ![i0].r = n0], u, "assert_capacity", st)
            ELSE IF Len(n1) > p_capacity[p1] THEN Panic(m1, u, "assert_capacity", st)
            ELSE IF ~test_p(m1, a) THEN Panic(m1, u, "assert_test_p", st)
            ELSE Ok(m1, u, <<>>, st)
    ELSE IF rank_map_err(roster1, p_ranking[p1]) # None
    THEN Err(m, u, "ApplicantNotFound", rank_map_err(roster1, p_ranking[p1]),
             Step("err", a, b, p0, p1, <<>>, k))
    ELSE
    LET r1_map == sort_desc(rank_map(roster1, p_ranking[p1])) IN
    IF Len(r0_map) < 1 \/ Len(r1_map) < 1
    THEN Panic(m, u, "unwrap_worst", Step("panic", a, b, p0, p1, <<>>, k))
    ELSE IF ~(rank0 < r0_map[1][2] /\ rank1 < r1_map[1][2]) THEN couples_walk(m, u, a, b, k + 1)
    ELSE
    LET r0_worst_index == r0_map[1][1]
        r1_worst_index == adjust_index(r0_worst_index, r1_map[1][1])
        weakest_applicant0 == roster0[r0_worst_index]
        weakest_applicant1 == roster1[r1_worst_index]
        n0 == Append(swap_remove(roster0, r0_worst_index), a)
        n1 == Append(swap_remove(roster1, r1_worst_index), b)
        m1 == [m EXCEPT ![i0].r = n0, ![i1].r = n1]
        st == Step("distinct_displace", a, b, p0, p1,
                   <<weakest_applicant0, weakest_applicant1>>, k)
    IN  IF Len(n0) > p_capacity[p0]
        THEN Panic([m EXCEPT ![i0].r = n0], u, "assert_capacity", st)
        ELSE IF Len(n1) > p_capacity[p1] THEN Panic(m1, u, "assert_capacity", st)
        ELSE IF ~test_p(m1, a) THEN Panic(m1, u, "assert_test_p", st)
        ELSE Ok(m1, u, <<Retry(weakest_applicant0), Retry(weakest_applicant1)>>, st)

\* lines 114-340: the loop over the zipped rankings from position k on
couples_walk(m, u, a, b, k) ==
    IF k > Len(a_ranking[a]) \/ k > Len(a_ranking[b])
    THEN Ok(m, unmatched_couple(u, a, b), <<>>,
            Step("couple_unmatched", a, b, None, None, <<>>, k))
    ELSE
    LET id0 == a_ranking[a][k]
        id1 == a_ranking[b][k]
        same_program == (id0 = id1)
        i0 == FindProgram(m, id0)
        i1 == IF same_program THEN i0 ELSE FindProgram(m, id1)
    IN  IF i0 = None
        THEN Err(m, u, "ProgramNotFound", id0, Step("err", a, b, None, None, <<>>, k))
        ELSE IF i1 = None
        THEN Err(m, u, "ProgramNotFound", id1, Step("err", a, b, None, None, <<>>, k))
        ELSE
        LET rank0 == Position(p_ranking[m[i0].p], a)
            rank1 == Position(p_ranking[m[i1].p], b)
        IN  IF pair_filtered(rank0, p_capacity[m[i0].p], rank1, p_capacity[m[i1].p],
                             same_program)
            THEN couples_walk(m, u, a, b, k + 1)
            ELSE IF rank_map_err(m[i0].r, p_ranking[m[i0].p]) # None
            THEN Err(m, u, "ApplicantNotFound", rank_map_err(m[i0].r, p_ranking[m[i0].p]),
                     Step("err", a, b, m[i0].p, m[i1].p, <<>>, k))
            ELSE LET r0_map == sort_desc(rank_map(m[i0].r, p_ranking[m[i0].p]))
                 IN  IF same_program
                     THEN same_program_step(m, u, a, b, k, i0, rank0, rank1, r0_map)
                     ELSE distinct_programs_step(m, u, a, b, k, i0, i1, rank0, rank1,
                                                 r0_map)

\* lines 107-341, called with Some(couple)
attempt_couples_match(m, u, applicant, couple) ==
    IF a_couple[applicant] = None \/ a_couple[couple] = None
    THEN Panic(m, u, "assert_coupled", Step("panic", applicant, couple, None, None, <<>>, 0))
    ELSE couples_walk(m, u, applicant, couple, 1)

\* ---------------------------------------------------------------- retry_match
\* lines 347-348: the first roster holding an applicant whose couple field is
\* `couple`, None when there is none
find_couple_program(m, couple) ==
    IF \E i \in 1..Len(m) : \E j \in 1..Len(m[i].r) : a_couple[m[i].r[j]] = couple
    THEN CHOOSE i \in 1..Len(m) :
            /\ \E j \in 1..Len(m[i].r) : a_couple[m[i].r[j]] = couple
            /\ \A h \in 1..(i - 1) : \A j \in 1..Len(m[h].r) : a_couple[m[h].r[j]] # couple
    ELSE None

\* lines 351-352: the first index in the roster of such an applicant
couple_index(roster, couple) ==
    IF \E j \in 1..Len(roster) : a_couple[roster[j]] = couple
    THEN CHOOSE j \in 1..Len(roster) :
            /\ a_couple[roster[j]] = couple
            /\ \A h \in 1..(j - 1) : a_couple[roster[h]] # couple
    ELSE None

\* lines 343-358
retry_match(m, u, applicant) ==
    LET couple == a_couple[applicant] IN
    IF couple = None THEN attempt_single_match(m, u, applicant)
    ELSE LET i == find_couple_program(m, couple) IN
         IF i = None
         THEN Panic(m, u, "assert_retry_program", Step("panic", applicant, None, None, None, <<>>, 0))
         ELSE LET index == couple_index(m[i].r, couple) IN
              IF index = None
              THEN Err(m, u, "ApplicantNotFound", couple,
                       Step("err", applicant, None, m[i].p, None, <<>>, 0))
              ELSE Ok([m EXCEPT ![i].r = swap_remove(m[i].r, index)], u,
                      <<Couples(applicant, m[i].r[index])>>,
                      Pulled(Step("retry_pull", applicant, m[i].r[index], m[i].p, None,
                                  <<>>, 0), m[i].r[index]))

\* ------------------------------------------------------------------ inputs
RECURSIVE Shapes(_)
\* the ways to split n applicants, in input order, into singletons and couples
Shapes(n) ==
    IF n = 0 THEN {<<>>}
    ELSE {<<1>> \o s : s \in Shapes(n - 1)}
         \cup (IF n >= 2 THEN {<<2>> \o s : s \in Shapes(n - 2)} ELSE {})

RECURSIVE UnitsFrom(_, _)
\* the Vec<Couple<A>> of a shape, ids given in input order starting at `first`
UnitsFrom(shape, first) ==
    IF shape = <<>> THEN <<>>
    ELSE IF Head(shape) = 1
         THEN <<(<<first, None>>)>> \o UnitsFrom(Tail(shape), first + 1)
         ELSE <<(<<first, first + 1>>)>> \o UnitsFrom(Tail(shape), first + 2)

\* Applicant.couple of n applicants: partner ids are mutual (sample_applicant_,
\* models/mod.rs)
CoupleOf(us, n) ==
    [a \in 1..n |->
        IF \E i \in 1..Len(us) : us[i][2] # None /\ a \in {us[i][1], us[i][2]}
        THEN LET i == CHOOSE i \in 1..Len(us) : us[i][2] # None /\ a \in {us[i][1], us[i][2]}
             IN  IF us[i][1] = a THEN us[i][2] ELSE us[i][1]
        ELSE None]

SeqsUpTo(S, n) == UNION {[1..l -> S] : l \in 0..n}
Injective(s) == \A i, j \in 1..Len(s) : i # j => s[i] # s[j]

\* rank lists of at most len ids of `ids`: a singleton lists no program twice,
\* the two lists of a couple have the same length
ValidRankings(us, n, ids, len) ==
    {ar \in [1..n -> SeqsUpTo(ids, len)] :
        \A i \in 1..Len(us) :
            IF us[i][2] = None THEN Injective(ar[us[i][1]])
            ELSE Len(ar[us[i][1]]) = Len(ar[us[i][2]])}

Perms(T) == {s \in [1..Cardinality(T) -> T] : Injective(s)}
OrderedSubsets(S) == UNION {Perms(T) : T \in SUBSET S}
Listers(ar, p) == {a \in DOMAIN ar : p \in Range(ar[a])}

RECURSIVE DepProd(_, _)
\* the sequences f of length n with f[i] \in choices[i]
DepProd(choices, n) ==
    IF n = 0 THEN {<<>>}
    ELSE {Append(f, x) : f \in DepProd(choices, n - 1), x \in choices[n]}

\* unfilled_positions() has not been called since run_match returned
NotCalled == -1

\* what a run_match call leaves behind: the three public fields and the result,
\* with the capacities it was called with
NoOutcome == [m |-> <<>>, u |-> <<>>, p |-> <<>>, result |-> NoError, cap |-> <<>>]
Outcome(m, u, p, res) == [m |-> m, u |-> u, p |-> p, result |-> res, cap |-> p_capacity]

\* Matcher::new (lines 34-40)
New ==
    /\ matches = <<>>
    /\ unmatched_a = <<>>
    /\ unmatched_p = <<>>
    /\ next_unit = 1
    /\ stack = <<>>
    /\ errors = <<>>
    /\ pc = "new"
    /\ result = NoError
    /\ last = NoStep
    /\ seen = {}
    /\ calls = 0
    /\ depth = 0
    /\ unfilled = NotCalled
    /\ run = 1
    /\ first_run = NoOutcome
    /\ prior = NoOutcome
    /\ all_first_choice = NotCalled

\* the matcher reads neither competitiveness nor applications: the inputs of
\* run_match carry none here
NoPopulation ==
    /\ a_competitiveness = <<>>
    /\ a_applications = <<>>
    /\ p_competitiveness = <<>>
    /\ strategy = <<>>
    /\ distribution = <<>>

\* Inputs that satisfy the preconditions of run_match: NumApplicants applicants
\* split in any way into singletons and couples.  A program ranks, in any
\* order, any of the applicants that list it (an applicant that does not list
\* a program is never looked up in that program's ranking).
InitSmall ==
    /\ units \in {UnitsFrom(s, 1) : s \in Shapes(NumApplicants)}
    /\ a_couple = CoupleOf(units, NumApplicants)
    /\ a_ranking \in ValidRankings(units, NumApplicants, 1..NumPrograms, MaxRank)
    /\ p_capacity \in [1..NumPrograms -> 1..MaxCapacity]
    /\ p_ranking \in DepProd([p \in 1..NumPrograms |->
                                 OrderedSubsets(Listers(a_ranking, p))], NumPrograms)
    /\ New
    /\ NoPopulation

\* Two couples (four applicants); every program ranks, in any order, all the
\* applicants that list it.
InitPairs ==
    /\ units = UnitsFrom(<<2, 2>>, 1)
    /\ a_couple = CoupleOf(units, 4)
    /\ a_ranking \in ValidRankings(units, 4, 1..NumPrograms, MaxRank)
    /\ p_capacity \in [1..NumPrograms -> 1..MaxCapacity]
    /\ p_ranking \in DepProd([p \in 1..NumPrograms |-> Perms(Listers(a_ranking, p))],
                             NumPrograms)
    /\ New
    /\ NoPopulation

\* One couple and two singletons (four applicants), in any input order; every
\* program ranks, in any order, all the applicants that list it.
InitMixed ==
    /\ units \in {UnitsFrom(s, 1) : s \in {<<2, 1, 1>>, <<1, 2, 1>>, <<1, 1, 2>>}}
    /\ a_couple = CoupleOf(units, 4)
    /\ a_ranking \in ValidRankings(units, 4, 1..NumPrograms, MaxRank)
    /\ p_capacity \in [1..NumPrograms -> 1..MaxCapacity]
    /\ p_ranking \in DepProd([p \in 1..NumPrograms |-> Perms(Listers(a_ranking, p))],
                             NumPrograms)
    /\ New
    /\ NoPopulation

\* Inputs in which applicants may list the id NumPrograms + 1, which is the id
\* of no program passed to run_match; otherwise as InitSmall, every program
\* ranking, in any order, all the applicants that list it.
InitUnknownProgram ==
    /\ units \in {UnitsFrom(s, 1) : s \in Shapes(NumApplicants)}
    /\ a_couple = CoupleOf(units, NumApplicants)
    /\ a_ranking \in ValidRankings(units, NumApplicants, 1..(NumPrograms + 1), MaxRank)
    /\ p_capacity \in [1..NumPrograms -> 1..MaxCapacity]
    /\ p_ranking \in DepProd([p \in 1..NumPrograms |-> Perms(Listers(a_ranking, p))],
                             NumPrograms)
    /\ New
    /\ NoPopulation

\* Inputs in which programs may rank the id NumApplicants + 1, which is the id
\* of no applicant passed to run_match, at any position among the applicants
\* that list them; otherwise as InitSmall.
InitUnknownApplicant ==
    /\ units \in {UnitsFrom(s, 1) : s \in Shapes(NumApplicants)}
    /\ a_couple = CoupleOf(units, NumApplicants)
    /\ a_ranking \in ValidRankings(units, NumApplicants, 1..NumPrograms, MaxRank)
    /\ p_capacity \in [1..NumPrograms -> 1..MaxCapacity]
    /\ p_ranking \in DepProd([p \in 1..NumPrograms |->
                                 Perms(Listers(a_ranking, p))
                                 \cup Perms(Listers(a_ranking, p) \cup {NumApplicants + 1})],
                             NumPrograms)
    /\ New
    /\ NoPopulation

\* As InitSmall, but a program may have no seat at all (capacity is a u8; the
\* filters of lines 61 and 132-133 skip such programs).
InitAnyCapacity ==
    /\ units \in {UnitsFrom(s, 1) : s \in Shapes(NumApplicants)}
    /\ a_couple = CoupleOf(units, NumApplicants)
    /\ a_ranking \in ValidRankings(units, NumApplicants, 1..NumPrograms, MaxRank)
    /\ p_capacity \in [1..NumPrograms -> 0..MaxCapacity]
    /\ p_ranking \in DepProd([p \in 1..NumPrograms |->
                                 OrderedSubsets(Listers(a_ranking, p))], NumPrograms)
    /\ New
    /\ NoPopulation

\* Five applicants, one or two of them couples, in any input order; every list
\* holds at most one program, a program has up to MaxCapacity + 1 seats and
\* ranks, in any order, all the applicants that list it.  (Rosters of three
\* members, and a roster of two beside a roster of one, need five applicants.)
InitFive ==
    /\ units \in {UnitsFrom(s, 1) : s \in {<<2, 1, 1, 1>>, <<1, 2, 1, 1>>, <<1, 1, 2, 1>>,
                                           <<1, 1, 1, 2>>, <<2, 2, 1>>, <<2, 1, 2>>,
                                           <<1, 2, 2>>}}
    /\ a_couple = CoupleOf(units, 5)
    /\ a_ranking \in ValidRankings(units, 5, 1..NumPrograms, 1)
    /\ p_capacity \in [1..NumPrograms -> 1..(MaxCapacity + 1)]
    /\ p_ranking \in DepProd([p \in 1..NumPrograms |-> Perms(Listers(a_ranking, p))],
                             NumPrograms)
    /\ New
    /\ NoPopulation

Init == InitSmall \/ InitPairs \/ InitMixed

\* ------------------------------------------------------------------ run_match
\* a clear that leaves the Vec as it is
clear_nothing(v) == v

\* lines 42-46: Vec::clear, for each of the three fields
clear(v) == <<>>

\* lines 361-362: clear(), then one empty roster per program, in input order
Enter ==
    /\ pc = "new"
    /\ matches' = [i \in 1..Len(p_capacity) |-> [p |-> i, r |-> <<>>]]
    /\ unmatched_a' = clear(unmatched_a)
    /\ unmatched_p' = clear(unmatched_p)
    /\ pc' = "loop"
    /\ UNCHANGED <<inputs, next_unit, stack, errors, result, last, seen, calls, depth,
                   unfilled, run, first_run, prior, all_first_choice>>

\* A call ended with outcome o; rest are the calls its callers still have to
\* make.  An Err is propagated by every ? up to the closure of line 364, so
\* the remaining calls of the unit are dropped; a panic ends the run.  A run
\* is followed for MaxCalls + 1 calls.
Apply(o, rest) ==
    /\ calls <= MaxCalls
    /\ calls' = calls + 1
    /\ matches' = o.m
    /\ unmatched_a' = o.u
    /\ last' = o.step
    /\ seen' = seen \cup {o.step.tag} \cup (IF o.step.pulled # None THEN {"pull"} ELSE {})
    /\ stack' = IF o.st = "ok" THEN o.t \o rest ELSE <<>>
    /\ errors' = IF o.st = "err" THEN Append(errors, o.e) ELSE errors
    /\ pc' = IF o.st = "panic" THEN "panic" ELSE pc
    /\ result' = IF o.st = "panic" THEN o.e ELSE result
    /\ UNCHANGED <<inputs, unmatched_p, unfilled, run, first_run, prior, all_first_choice>>

\* line 364: the closure calls attempt_couples_match for the next unit; every
\* unit is attempted, whatever the earlier ones returned (collect::<Vec<_>>)
MatchUnit ==
    /\ pc = "loop"
    /\ stack = <<>>
    /\ next_unit <= Len(units)
    /\ next_unit' = next_unit + 1
    /\ depth' = 1
    /\ LET unit == units[next_unit] IN
       Apply(IF unit[2] = None
             THEN attempt_single_match(matches, unmatched_a, unit[1])
             ELSE attempt_couples_match(matches, unmatched_a, unit[1], unit[2]),
             <<>>)

\* a pending retry_match call is made
RetryCall ==
    /\ pc = "loop"
    /\ stack # <<>>
    /\ Head(stack).op = "retry"
    /\ Apply(retry_match(matches, unmatched_a, Head(stack).a), Tail(stack))
    /\ depth' = depth + 1
    /\ UNCHANGED next_unit

\* a pending attempt_couples_match call is made
CouplesCall ==
    /\ pc = "loop"
    /\ stack # <<>>
    /\ Head(stack).op = "couples"
    /\ Apply(attempt_couples_match(matches, unmatched_a, Head(stack).a, Head(stack).b),
             Tail(stack))
    /\ depth' = depth + 1
    /\ UNCHANGED next_unit

\* a finalize that keeps the programs without members in matches
finalize_matches_all(m) == m

\* lines 372-381
finalize_unmatched_p(m) == SelectSeq([i \in 1..Len(m) |-> IF Len(m[i].r) = 0 THEN m[i].p ELSE None],
                                     LAMBDA x : x # None)
finalize_matches(m) == SelectSeq(m, LAMBDA e : Len(e.r) > 0)

\* lines 366-369: the first Err of the collected results is returned; otherwise
\* finalize() and Ok
Finish ==
    /\ pc = "loop"
    /\ stack = <<>>
    /\ next_unit > Len(units)
    /\ pc' = "done"
    /\ IF errors # <<>>
       THEN /\ result' = errors[1]
            /\ UNCHANGED <<matches, unmatched_p>>
       ELSE /\ result' = [kind |-> "Ok", id |-> None]
            /\ unmatched_p' = finalize_unmatched_p(matches)
            /\ matches' = finalize_matches(matches)
    /\ first_run' = IF run = 1
                    THEN Outcome(matches', unmatched_a, unmatched_p', result')
                    ELSE first_run
    /\ UNCHANGED <<inputs, unmatched_a, next_unit, stack, errors, last, seen, calls, depth,
                   unfilled, run, prior, all_first_choice>>

RECURSIVE Sum(_)
\* Iterator::sum
Sum(s) == IF s = <<>> THEN 0 ELSE Head(s) + Sum(Tail(s))

\* a count of free seats that ignores the roster
seats_left_of_empty(capacity, len) == capacity

\* line 386: diff, the capacity less the roster's length (both as i32)
seats_left(capacity, len) == capacity - len

\* lines 384-389: the capacities of unmatched_p plus the free seats of matches
unfilled_positions(m, up) ==
    Sum([i \in 1..Len(up) |-> p_capacity[up[i]]])
    + Sum([i \in 1..Len(m) |-> seats_left(p_capacity[m[i].p], Len(m[i].r))])

\* lines 383-390: unfilled_positions() is called after run_match returned; the
\* assert! of line 387 stops the program when a roster is over its capacity
UnfilledPositions ==
    /\ pc = "done"
    /\ unfilled = NotCalled
    /\ IF \E i \in 1..Len(matches) :
              seats_left(p_capacity[matches[i].p], Len(matches[i].r)) < 0
       THEN /\ pc' = "panic"
            /\ result' = [kind |-> "assert_unfilled", id |-> None]
            /\ UNCHANGED unfilled
       ELSE /\ unfilled' = unfilled_positions(matches, unmatched_p)
            /\ UNCHANGED <<pc, result>>
    /\ UNCHANGED <<inputs, matches, unmatched_a, unmatched_p, next_unit, stack, errors,
                   last, seen, calls, depth, run, first_run, prior, all_first_choice>>

Next == Enter \/ MatchUnit \/ RetryCall \/ CouplesCall \/ Finish \/ UnfilledPositions

RECURSIVE flat_map(_)
\* main.rs line 214 (driver.rs line 171): flat_map(|m| &m.1), the rosters of
\* the entries of ms one after the other
flat_map(ms) ==
    IF ms = <<>> THEN <<>> ELSE Head(ms).r \o flat_map(Tail(ms))

\* main.rs line 213 (driver.rs line 170): the closure of any(), which indexes
\* the member's ranking at 0
is_first_choice(a, program_id) == a_ranking[a][1] = program_id

\* main.rs line 213: any() evaluates its closure member by member up to the
\* first that returns true; the members it evaluates
any_evaluated(e) ==
    {e.r[j] : j \in {j \in 1..Len(e.r) :
                        \A h \in 1..(j - 1) :
                            /\ a_ranking[e.r[h]] # <<>>
                            /\ ~is_first_choice(e.r[h], e.p)}}

\* main.rs lines 212-215 (driver.rs lines 169-172): the entries of matches of
\* which any member has the program as its first choice, then all the members
\* of these entries
first_choicers(m) ==
    flat_map(SelectSeq(m, LAMBDA e : \E a \in Range(e.r) : is_first_choice(a, e.p)))

\* main.rs lines 212-216 (driver.rs lines 169-173): after run_match returned
\* Ok and the counts of lines 188-196 were taken, run_simulation counts the
\* first_choicers; indexing an empty ranking at 0 stops the program
ReportFirstChoice ==
    /\ pc = "done"
    /\ result.kind = "Ok"
    /\ unfilled # NotCalled
    /\ all_first_choice = NotCalled
    /\ IF \E i \in 1..Len(matches) : \E a \in any_evaluated(matches[i]) :
              a_ranking[a] = <<>>
       THEN /\ pc' = "panic"
            /\ result' = [kind |-> "index_out_of_bounds", id |-> None]
            /\ UNCHANGED all_first_choice
       ELSE /\ all_first_choice' = Len(first_choicers(matches))
            /\ UNCHANGED <<pc, result>>
    /\ UNCHANGED <<inputs, matches, unmatched_a, unmatched_p, next_unit, stack, errors,
                   last, seen, calls, depth, unfilled, run, first_run, prior>>

NextReport == Next \/ ReportFirstChoice

\* run_match is called again on the same instance, which still holds what the
\* last call left (lines 360-370 do not depend on how often they ran).  Calls
\* with an even number get any capacities, calls with an odd number the
\* capacities of the first call.
Again ==
    /\ pc = "done"
    /\ run < MaxRuns
    /\ run' = run + 1
    /\ prior' = Outcome(matches, unmatched_a, unmatched_p, result)
    /\ p_capacity' \in IF run % 2 = 1 THEN [DOMAIN p_capacity -> 1..MaxCapacity]
                                       ELSE {first_run.cap}
    /\ pc' = "new"
    /\ next_unit' = 1
    /\ stack' = <<>>
    /\ errors' = <<>>
    /\ result' = NoError
    /\ last' = NoStep
    /\ seen' = {}
    /\ calls' = 0
    /\ depth' = 0
    /\ unfilled' = NotCalled
    /\ all_first_choice' = NotCalled
    /\ UNCHANGED <<units, a_couple, a_ranking, p_ranking, population, matches,
                   unmatched_a, unmatched_p, first_run>>

\* run_match is called a second time on the instance with the same
\* applicants in another order of the Vec (lines 360-370 take any order)
Reorder ==
    /\ pc = "done"
    /\ run = 1
    /\ run' = 2
    /\ prior' = Outcome(matches, unmatched_a, unmatched_p, result)
    /\ units' \in Perms(Range(units)) \ {units}
    /\ pc' = "new"
    /\ next_unit' = 1
    /\ stack' = <<>>
    /\ errors' = <<>>
    /\ result' = NoError
    /\ last' = NoStep
    /\ seen' = {}
    /\ calls' = 0
    /\ depth' = 0
    /\ unfilled' = NotCalled
    /\ all_first_choice' = NotCalled
    /\ UNCHANGED <<a_couple, a_ranking, p_capacity, p_ranking, population, matches,
                   unmatched_a, unmatched_p, first_run>>

NextReorder == Next \/ Reorder

NextAgain == Next \/ Again

Spec == Init /\ [][Next]_vars

\* ------------------------------------------------------------------ rank()
\* Competitiveness is an f32 in [0, 1): it is kept in thousandths, the
\* multipliers of a RankStrategy in hundredths and the shares of a
\* RankDistribution in tenths, so that p >= m * a reads p * 100 >= m * a.

\* ranker.rs lines 53, 61: the cap 0.99, in thousandths
ReachCap == 990
\* ranker.rs line 69: the cap 0.95, in thousandths
SafetyCap == 950

\* f32::min(cap, multiplier * a.competitiveness()), in hundred-thousandths
capped(cap, multiplier, competitiveness) ==
    IF cap * 100 < multiplier * competitiveness
    THEN cap * 100 ELSE multiplier * competitiveness

\* lines 52-54: the filter of the reach bucket
reach_filter(p, a) ==
    p_competitiveness[p] * 100
        >= capped(ReachCap, strategy.reach_multiplier, a_competitiveness[a])

\* lines 59-62: the filter of the realistic bucket
realistic_filter(p, a) ==
    /\ p_competitiveness[p] * 100 < strategy.reach_multiplier * a_competitiveness[a]
    /\ p_competitiveness[p] * 100
           >= capped(ReachCap, strategy.realistic_multiplier, a_competitiveness[a])

\* lines 67-70: the filter of the safety bucket
safety_filter(p, a) ==
    /\ p_competitiveness[p] * 100 < strategy.realistic_multiplier * a_competitiveness[a]
    /\ p_competitiveness[p] * 100
           >= capped(SafetyCap, strategy.safety_multiplier, a_competitiveness[a])

\* lines 55, 63, 71: (a.applications() as f32 * share) as usize
take_count(applications, share) == (applications * share) \div 10

\* Iterator::take
take(s, n) == SubSeq(s, 1, IF n < Len(s) THEN n ELSE Len(s))

\* lines 51-57: the ids of the first programs, in the order of the Vec, that
\* pass the reach filter
reach(a) ==
    take(SelectSeq([p \in 1..Len(p_competitiveness) |-> p], LAMBDA p : reach_filter(p, a)),
         take_count(a_applications[a], distribution.reach))

\* lines 58-65
realistic(a) ==
    take(SelectSeq([p \in 1..Len(p_competitiveness) |-> p],
                   LAMBDA p : realistic_filter(p, a)),
         take_count(a_applications[a], distribution.realistic))

\* lines 66-73
safety(a) ==
    take(SelectSeq([p \in 1..Len(p_competitiveness) |-> p], LAMBDA p : safety_filter(p, a)),
         take_count(a_applications[a], distribution.safety))

\* line 74: [reach, realistic, safety].concat()
all(a) == reach(a) \o realistic(a) \o safety(a)

\* models/mod.rs lines 135-137: Applicant::add_ranking
add_ranking(ranking, id) == Append(ranking, id)

\* ReceiveApplication::receive_application (declared at ranker.rs lines 7-11):
\* the applicant is put on the program's list, which is kept sorted by
\* descending competitiveness of the applicants, equals in order of arrival
receive_application(ranking, a) ==
    LET before == SelectSeq(ranking,
                            LAMBDA x : a_competitiveness[x] >= a_competitiveness[a])
        after == SelectSeq(ranking,
                           LAMBDA x : a_competitiveness[x] < a_competitiveness[a])
    IN  before \o <<a>> \o after

RECURSIVE submit(_, _, _)
\* lines 75-79 and 81-85: for each id of the list, in order, the applicant
\* ranks the program and the program receives the application
submit(ids, who, st) ==
    IF ids = <<>> THEN st
    ELSE submit(Tail(ids), who,
                [ar |-> [st.ar EXCEPT ![who] = add_ranking(@, Head(ids))],
                 pr |-> [st.pr EXCEPT ![Head(ids)] = receive_application(@, who)]])

\* a rank() that forgets the partner
rank_partner_skipped(ids, b, st) == st

\* lines 80-86: the partner, if there is one, submits the same list
rank_partner(ids, b, st) ==
    IF b = None THEN st ELSE submit(ids, b, st)

\* lines 46-87: rank() for the next Couple of the applicants (driver.rs lines
\* 106-113, main.rs lines 155-157 call it for each in turn)
Rank ==
    /\ pc = "rank"
    /\ next_unit <= Len(units)
    /\ LET a == units[next_unit][1]
           b == units[next_unit][2]
           st == rank_partner(all(a), b,
                              submit(all(a), a, [ar |-> a_ranking, pr |-> p_ranking]))
       IN  /\ a_ranking' = st.ar
           /\ p_ranking' = st.pr
    /\ next_unit' = next_unit + 1
    /\ UNCHANGED <<units, a_couple, p_capacity, population, matches, unmatched_a,
                   unmatched_p, stack, errors, pc, result, last, seen, calls, depth,
                   unfilled, run, first_run, prior, all_first_choice>>

\* the programs of a population
NumListed == 3
\* the values of competitiveness taken by applicants and by programs
ApplicantValues == {30, 600, 900, 960}
ProgramValues == {20, 500, 800, 995}
\* main.rs lines 140-149 and driver.rs lines 95-104: the strategy and the
\* distribution generate_rankings passes to rank()
Settings ==
    {[strategy |-> [reach_multiplier |-> 115, realistic_multiplier |-> 95,
                    safety_multiplier |-> 70],
      distribution |-> [reach |-> 5, realistic |-> 3, safety |-> 2]],
     [strategy |-> [reach_multiplier |-> 105, realistic_multiplier |-> 95,
                    safety_multiplier |-> 90],
      distribution |-> [reach |-> 3, realistic |-> 5, safety |-> 2]]}

\* A population before generate_rankings ranks it: two applicants, singletons
\* or one couple, with empty lists; the members of a couple share their
\* competitiveness (models/mod.rs lines 84-86) and every applicant applies
\* (competitiveness * 100) as u8 + 1 times (lines 86, 96); the programs are
\* sorted by descending competitiveness (driver.rs line 105) and have empty
\* lists.
InitRank ==
    /\ units \in {UnitsFrom(s, 1) : s \in Shapes(2)}
    /\ a_couple = CoupleOf(units, 2)
    /\ a_competitiveness \in {c \in [1..2 -> ApplicantValues] :
                                 a_couple[1] # None => c[1] = c[2]}
    /\ a_applications = [a \in 1..2 |-> (a_competitiveness[a] \div 10) + 1]
    /\ p_competitiveness \in {c \in [1..NumListed -> ProgramValues] :
                                 \A i \in 1..(NumListed - 1) : c[i] >= c[i + 1]}
    /\ \E s \in Settings : strategy = s.strategy /\ distribution = s.distribution
    /\ a_ranking = [a \in 1..2 |-> <<>>]
    /\ p_ranking = [p \in 1..NumListed |-> <<>>]
    /\ p_capacity = [p \in 1..NumListed |-> 1]
    /\ matches = <<>>
    /\ unmatched_a = <<>>
    /\ unmatched_p = <<>>
    /\ next_unit = 1
    /\ stack = <<>>
    /\ errors = <<>>
    /\ pc = "rank"
    /\ result = NoError
    /\ last = NoStep
    /\ seen = {}
    /\ calls = 0
    /\ depth = 0
    /\ unfilled = NotCalled
    /\ run = 1
    /\ first_run = NoOutcome
    /\ prior = NoOutcome
    /\ all_first_choice = NotCalled

SpecRank == InitRank /\ [][Rank]_vars

\* ------------------------------------------------------------- properties
\* the roster of program p, empty when matches has no entry for p
RosterOf(p) ==
    IF \E i \in 1..Len(matches) : matches[i].p = p
    THEN matches[CHOOSE i \in 1..Len(matches) : matches[i].p = p].r
    ELSE <<>>
InRoster(a, p) == a \in Range(RosterOf(p))
Placed(a) == \E i \in 1..Len(matches) : a \in Range(matches[i].r)
InPool(a) == a \in Range(unmatched_a)

\* how often applicant a occurs in all rosters and the unmatched pool together
Occurrences(a) ==
    Cardinality({<<i, j>> \in (1..Len(matches)) \X (1..(NumApplicants + 2)) :
                    j <= Len(matches[i].r) /\ matches[i].r[j] = a})
    + Cardinality({j \in 1..Len(unmatched_a) : unmatched_a[j] = a})

RECURSIVE SumTo(_, _)
SumTo(f, n) == IF n = 0 THEN 0 ELSE f[n] + SumTo(f, n - 1)
RosterEntries == SumTo([i \in 1..Len(matches) |-> Len(matches[i].r)], Len(matches))
SumCapacities == SumTo(p_capacity, Len(p_capacity))

Displacements == {"single_displace", "same_displace_one", "same_displace_two",
                  "distinct_displace"}
ReturnedOk == pc = "done" /\ result.kind = "Ok"
\* between two units of the input sequence: the last unit is fully processed
BetweenUnits == pc = "loop" /\ stack = <<>>

\* C1: in every state of a run, also inside retry cascades and when it ends,
\* no roster holds more applicants than its program's capacity, so all rosters
\* together never hold more than the sum of the capacities.
C1_CapacityBound ==
    /\ \A i \in 1..Len(matches) : Len(matches[i].r) <= p_capacity[matches[i].p]
    /\ RosterEntries <= SumCapacities

\* a retried applicant has just displaced a member of a full roster
C1_Witness ==
    /\ pc = "loop"
    /\ depth >= 2
    /\ last.tag \in Displacements
    /\ Len(RosterOf(last.p0)) = p_capacity[last.p0]

Min(x, y) == IF x < y THEN x ELSE y
CoupleBothUnmatched(A, B) == InPool(A) /\ InPool(B) /\ ~Placed(A) /\ ~Placed(B)
CoupleBothPlaced(A, B) ==
    /\ ~InPool(A) /\ ~InPool(B)
    /\ \E k \in 1..Min(Len(a_ranking[A]), Len(a_ranking[B])) :
           InRoster(A, a_ranking[A][k]) /\ InRoster(B, a_ranking[B][k])
CoupleNowhere(A, B) == ~InPool(A) /\ ~InPool(B) /\ ~Placed(A) /\ ~Placed(B)

\* C2: whenever a unit has been fully processed without an error, and when
\* run_match has returned Ok, the two members of every couple processed so far
\* are both in the unmatched pool or both in rosters at one common position of
\* their lists (and those of a couple not yet processed are nowhere).
C2_CoupleAtomicity ==
    ((BetweenUnits /\ errors = <<>>) \/ ReturnedOk) =>
        \A i \in 1..Len(units) :
            units[i][2] # None =>
                IF i < next_unit
                THEN \/ CoupleBothUnmatched(units[i][1], units[i][2])
                     \/ CoupleBothPlaced(units[i][1], units[i][2])
                ELSE CoupleNowhere(units[i][1], units[i][2])

\* run_match returned Ok after a couple was pulled apart and re-attempted, and a
\* couple sits in rosters
C2_Witness ==
    /\ ReturnedOk
    /\ "pull" \in seen
    /\ \E i \in 1..Len(units) :
           units[i][2] # None /\ CoupleBothPlaced(units[i][1], units[i][2])

\* C3: for inputs that satisfy the preconditions run_match returns Ok (no
\* lookup error, no panic) and every applicant that is in no roster is in the
\* unmatched pool.
C3_ReturnsOk ==
    /\ pc # "panic"
    /\ pc = "done" =>
           /\ result.kind = "Ok"
           /\ \A a \in Applicants : Placed(a) \/ InPool(a)

\* C4: after run_match returned Ok every applicant occurs exactly once in the
\* rosters and the unmatched pool together, and nothing else occurs there.
C4_DisjointPlacement ==
    ReturnedOk =>
        /\ \A a \in Applicants : Occurrences(a) = 1
        /\ \A i \in 1..Len(matches) : Range(matches[i].r) \subseteq Applicants
        /\ Range(unmatched_a) \subseteq Applicants

\* run_match returned Ok after a displacement, with applicants in rosters and
\* in the pool
C4_Witness ==
    /\ ReturnedOk
    /\ seen \cap Displacements # {}
    /\ unmatched_a # <<>>
    /\ matches # <<>>

\* C5: in every state between matcher steps no applicant occurs twice in the
\* rosters and the unmatched pool together.
C5_Uniqueness == \A a \in Applicants : Occurrences(a) <= 1

\* a couple was pulled apart by a displacement, re-attempted and is unmatched
C5_Witness ==
    /\ pc = "loop"
    /\ "pull" \in seen
    /\ last.tag = "couple_unmatched"
    /\ Occurrences(last.a) = 1 /\ Occurrences(last.b) = 1

\* C6: every run ends: it never makes more than MaxCalls calls of
\* attempt_couples_match and retry_match (a cascade of retries that came back
\* to a state it was in before would make any number of calls).
C6_Termination == calls <= MaxCalls

\* a run has ended in which a displaced applicant's partner was pulled out of a
\* roster and a later call placed someone
C6_Witness ==
    /\ pc = "done"
    /\ "pull" \in seen
    /\ depth >= 2

\* C7: in every state, every member A of the roster of a program P is ranked by
\* P and lists P.
C7_Membership ==
    \A i \in 1..Len(matches) : \A j \in 1..Len(matches[i].r) :
        /\ Position(p_ranking[matches[i].p], matches[i].r[j]) # None
        /\ Position(a_ranking[matches[i].r[j]], matches[i].p) # None

\* a couple has just displaced one member each of two distinct programs
C7_Witness ==
    /\ last.tag = "distinct_displace"
    /\ InRoster(last.a, last.p0)
    /\ InRoster(last.b, last.p1)
SpecUnknownProgram == InitUnknownProgram /\ [][Next]_vars
SpecAgain == InitUnknownProgram /\ [][NextAgain]_vars
SpecFive == InitFive /\ [][Next]_vars
SpecUnknownApplicant == InitUnknownApplicant /\ [][Next]_vars

\* the step just made evicted two applicants that are each other's partners
EvictedPartners ==
    /\ pc = "loop"
    /\ last.tag \in {"distinct_displace", "same_displace_two"}
    /\ Len(last.out) = 2
    /\ a_couple[last.out[1]] = last.out[2]

\* C8: when one step of a couple evicts two applicants that are each other's
\* partners, the next call is the one joint attempt_couples_match of the two,
\* no separate retry_match of either is pending, and the run does not stop on
\* the retry of an evictee whose partner is in no roster.
C8_JointDispatch ==
    /\ EvictedPartners =>
           /\ stack # <<>>
           /\ Head(stack) = Couples(last.out[1], last.out[2])
           /\ \A j \in 1..Len(stack) :
                  stack[j] \notin {Retry(last.out[1]), Retry(last.out[2])}
    /\ ~(pc = "panic" /\ result.kind = "assert_retry_program"
            /\ "distinct_displace" \in seen /\ ~Placed(a_couple[last.a]))

UnknownProgram(id) == id \notin Programs
\* the positions of a's list that hold an id of no program
UnknownAt(a) == {k \in 1..Len(a_ranking[a]) : UnknownProgram(a_ranking[a][k])}
\* applicant a sits in the roster of a program it lists before position k
PlacedBefore(a, k) == \E j \in 1..(k - 1) : InRoster(a, a_ranking[a][j])

\* C9 (original): if an applicant's list holds, at any position, an id of no
\* program, run_match does not return Ok.
C9_AnyPosition ==
    ReturnedOk => \A a \in Applicants : UnknownAt(a) = {}

\* C9 (amended): every recorded error is ProgramNotFound naming an id of no
\* program; run_match returns the first recorded error if there is one; and
\* when it returns Ok, every applicant (and the partner of every applicant)
\* whose list holds an id of no program at position k sits in the roster of a
\* program it lists before position k, so no walk reached position k.
C9_ReachedPosition ==
    /\ \A e \in 1..Len(errors) :
           errors[e].kind = "ProgramNotFound" /\ UnknownProgram(errors[e].id)
    /\ (pc = "done" /\ errors # <<>>) => result = errors[1]
    /\ ReturnedOk =>
           /\ errors = <<>>
           /\ \A a \in Applicants : \A k \in UnknownAt(a) :
                  /\ PlacedBefore(a, k)
                  /\ a_couple[a] # None => PlacedBefore(a_couple[a], k)

\* run_match returned ProgramNotFound for an id that a retried applicant's walk
\* reached after a displacement
C9_Witness ==
    /\ pc = "done"
    /\ result.kind = "ProgramNotFound"
    /\ UnknownProgram(result.id)
    /\ seen \cap Displacements # {}

UnknownApplicant(id) == id \notin Applicants

ReturnedError == pc = "done" /\ result.kind \in {"ProgramNotFound", "ApplicantNotFound"}

\* C11: once the attempt for a unit has ended in ProgramNotFound or
\* ApplicantNotFound, no later unit is attempted: no step changes the rosters or
\* the unmatched pool any more.
C11_AbortOnError ==
    [][errors # <<>> => UNCHANGED <<matches, unmatched_a, next_unit>>]_vars

\* C12: when run_match has returned an error, matches holds no non-empty roster
\* and unmatched_a is empty.
C12_NoPartialResults ==
    ReturnedError =>
        /\ \A i \in 1..Len(matches) : matches[i].r = <<>>
        /\ unmatched_a = <<>>

\* C13: a run_match call on an instance that still holds what earlier calls
\* left (a successful or a failed one, with the same or other capacities)
\* leaves the matches, unmatched_a and unmatched_p, and returns the result, of
\* the first call on the fresh instance with the same inputs.
C13_Idempotent ==
    (pc = "done" /\ run > 1 /\ p_capacity = first_run.cap) =>
        /\ matches = first_run.m
        /\ unmatched_a = first_run.u
        /\ unmatched_p = first_run.p
        /\ result = first_run.result

\* the third call returned Ok with applicants in rosters and in the pool, on an
\* instance that held another outcome, with applicants in its pool, when the
\* call began
C13_Witness ==
    /\ ReturnedOk /\ run = 3
    /\ matches # <<>> /\ unmatched_a # <<>>
    /\ prior.u # <<>>
    /\ <<prior.m, prior.u, prior.p>> # <<first_run.m, first_run.u, first_run.p>>

\* how often program p occurs in matches m and in the unmatched programs up
ProgramOccurrences(m, up, p) ==
    Cardinality({i \in 1..Len(m) : m[i].p = p}) + Cardinality({i \in 1..Len(up) : up[i] = p})

\* C14: the step in which run_match returns Ok leaves every program in exactly
\* one of matches and unmatched_p: matches holds, with their rosters unchanged,
\* exactly the programs that had at least one member, and unmatched_p exactly
\* the programs that had none.
C14_FinalizePartition ==
    [][(pc = "loop" /\ pc' = "done" /\ result'.kind = "Ok") =>
           /\ \A p \in Programs : ProgramOccurrences(matches', unmatched_p', p) = 1
           /\ \A i \in 1..Len(matches) :
                  IF matches[i].r # <<>>
                  THEN \E j \in 1..Len(matches') : matches'[j] = matches[i]
                  ELSE matches[i].p \in Range(unmatched_p')
           /\ \A j \in 1..Len(matches') : matches'[j].r # <<>>
           /\ \A j \in 1..Len(unmatched_p') : unmatched_p'[j] \in Programs]_vars

\* run_match returned Ok with a program in matches and one in unmatched_p
C14_Witness ==
    /\ ReturnedOk
    /\ matches # <<>>
    /\ unmatched_p # <<>>
    /\ unmatched_a # <<>>

\* C15: unfilled_positions() called after run_match returned Ok returns the sum
\* of all capacities less the number of placed applicants, and its assertion
\* never fails.
C15_UnfilledPositions ==
    /\ result.kind # "assert_unfilled"
    /\ (ReturnedOk /\ unfilled # NotCalled) =>
           unfilled = SumCapacities - Cardinality({a \in Applicants : Placed(a)})

\* unfilled_positions() returned a positive number after a run that left a
\* program with members, with a free seat, and a program without members
C15_Witness ==
    /\ ReturnedOk
    /\ unfilled > 0
    /\ unmatched_p # <<>>
    /\ \E i \in 1..Len(matches) : Len(matches[i].r) < p_capacity[matches[i].p]

\* program P is full and ranks every member of its roster before applicant B
FullOfBetter(P, B) ==
    /\ Len(RosterOf(P)) = p_capacity[P]
    /\ \A j \in 1..Len(RosterOf(P)) :
           Position(p_ranking[P], RosterOf(P)[j]) < Position(p_ranking[P], B)
\* P is not on B's list, or B sits in the roster of a program its list holds
\* before P
NotReachable(P, B) ==
    \/ Position(a_ranking[B], P) = None
    \/ PlacedBefore(B, Position(a_ranking[B], P))
\* the programs P and applicants B the property speaks about: P ranks B, B is
\* not a member of P, and P has members
Contests(P, B) ==
    /\ Position(p_ranking[P], B) # None
    /\ ~InRoster(B, P)
    /\ RosterOf(P) # <<>>

\* C16 (original): after run_match returned Ok, every program P with members
\* that ranks an applicant B that is not a member is full of applicants it
\* ranks before B, or is not reachable for B.
C16_MonotonePreference ==
    ReturnedOk =>
        \A P \in Programs : \A B \in Applicants :
            Contests(P, B) => FullOfBetter(P, B) \/ NotReachable(P, B)

NoCouples == \A a \in Applicants : a_couple[a] = None

\* C16 (amended): after run_match returned Ok for an input without couples,
\* every program P with members that ranks an applicant B that is not a member
\* is full of applicants it ranks before B, or is not reachable for B.
C16_MonotoneWithoutCouples ==
    (ReturnedOk /\ NoCouples) =>
        \A P \in Programs : \A B \in Applicants :
            Contests(P, B) => FullOfBetter(P, B) \/ NotReachable(P, B)

\* run_match returned Ok for an input without couples after a displacement, and
\* an applicant is kept out of a program on its list by members ranked before it
C16_Witness ==
    /\ ReturnedOk /\ NoCouples
    /\ "single_displace" \in seen
    /\ \E P \in Programs : \E B \in Applicants :
           Contests(P, B) /\ FullOfBetter(P, B) /\ ~NotReachable(P, B)

\* program P ranks applicant x before applicant y
RanksBefore(P, x, y) == Position(p_ranking[P], x) < Position(p_ranking[P], y)
\* the members of P's roster that were members before the newcomers came
OldMembers(P, newcomers) == Range(RosterOf(P)) \ newcomers

\* C17: when a couple has just taken two seats of a full program P, the two
\* members removed are the two with the largest positions in P's rank list:
\* P ranks every member it kept before both of them.
C17_TwoWeakestRemoved ==
    (pc = "loop" /\ last.tag = "same_displace_two") =>
        \A x \in OldMembers(last.p0, {last.a, last.b}) :
            /\ RanksBefore(last.p0, x, last.out[1])
            /\ RanksBefore(last.p0, x, last.out[2])

\* C18: when a couple (a, b) has just displaced at distinct programs P0 and P1,
\* the member removed from P0 is the weakest of P0's roster and the member
\* removed from P1 the weakest of P1's roster: each program ranks every member
\* it kept before the member it lost.
C18_WeakestOfEachRemoved ==
    (pc = "loop" /\ last.tag = "distinct_displace") =>
        /\ \A x \in OldMembers(last.p0, {last.a}) : RanksBefore(last.p0, x, last.out[1])
        /\ \A x \in OldMembers(last.p1, {last.b}) : RanksBefore(last.p1, x, last.out[2])

\* applicant a is in a roster of matches m
PlacedIn(m, a) == \E i \in 1..Len(m) : a \in Range(m[i].r)
\* the next call is retry_match(W) for an applicant W whose partner sits in a
\* roster
RetryWithPartnerPlaced ==
    /\ pc = "loop"
    /\ stack # <<>>
    /\ Head(stack).op = "retry"
    /\ a_couple[Head(stack).a] # None
    /\ PlacedIn(matches, a_couple[Head(stack).a])

\* C19: the retry of a displaced applicant W whose partner sits in the roster
\* of a program takes the partner out of that roster and makes the one joint
\* call attempt_couples_match(W, partner) next; the run does not stop.
C19_RetryPullsPartner ==
    [][RetryWithPartnerPlaced =>
           /\ pc' = "loop"
           /\ ~PlacedIn(matches', a_couple[Head(stack).a])
           /\ stack' # <<>>
           /\ Head(stack') = Couples(Head(stack).a, a_couple[Head(stack).a])]_vars

\* C20: when a step has displaced an applicant W whose partner was not displaced
\* with it, the partner does not sit in the roster of a program that accepted
\* the newcomers any more, and a partner that was taken out of such a roster
\* is re-attempted jointly: attempt_couples_match(W, partner) is pending.
C20_PartnerInAcceptingRoster ==
    (pc = "loop" /\ last.tag \in Displacements) =>
        /\ \A j \in 1..Len(last.out) :
               (a_couple[last.out[j]] # None /\ a_couple[last.out[j]] \notin Range(last.out))
                   => /\ ~InRoster(a_couple[last.out[j]], last.p0)
                      /\ last.p1 # None => ~InRoster(a_couple[last.out[j]], last.p1)
        /\ last.pulled # None =>
               /\ ~Placed(last.pulled)
               /\ \E j \in 1..Len(stack) :
                      stack[j] = Couples(a_couple[last.pulled], last.pulled)

\* C21: every applicant a step has removed from a program's roster to make
\* room has a larger position in that program's rank list than each newcomer
\* that took a seat at the program in the step (single, same-program and
\* distinct-program displacements).
C21_DisplacedByPreferred ==
    (pc = "loop" /\ last.tag \in Displacements) =>
        CASE last.tag = "single_displace" ->
                 RanksBefore(last.p0, last.a, last.out[1])
          [] last.tag \in {"same_displace_one", "same_displace_two"} ->
                 \A j \in 1..Len(last.out) :
                     /\ RanksBefore(last.p0, last.a, last.out[j])
                     /\ RanksBefore(last.p0, last.b, last.out[j])
          [] OTHER ->
                 /\ RanksBefore(last.p0, last.a, last.out[1])
                 /\ RanksBefore(last.p1, last.b, last.out[2])

\* the roster of program p in the matches m
RosterIn(m, p) ==
    IF \E i \in 1..Len(m) : m[i].p = p
    THEN m[CHOOSE i \in 1..Len(m) : m[i].p = p].r
    ELSE <<>>
\* this step is one finished walk of attempt_single_match
SingleTags == {"single_place", "single_displace", "single_unmatched"}
SingleStep == calls' = calls + 1 /\ last'.tag \in SingleTags
\* every member of the roster of P in m is ranked by P before applicant a
AllRankedBefore(m, P, a) ==
    \A x \in Range(RosterIn(m, P)) : RanksBefore(P, x, a)
\* the calls that re-attempt a displaced applicant W
RetriesOf(W) == {Retry(W)} \cup {Couples(W, c) : c \in {a_couple[W]} \ {None}}

\* C22: a single applicant a replaces a member of a full program P exactly
\* when P ranks a before its weakest member W.  When it does, W is the one
\* member removed (P ranks every other old member before W), a joins, and the
\* next call re-attempts W; a full program a passed over on its way ranks all
\* its members before a and keeps its roster.
C22_SingleDisplacement ==
    [][SingleStep =>
         LET a == last'.a
             P == last'.p0
             W == last'.out[1]
             old == Range(RosterIn(matches, P))
         IN  /\ last'.tag = "single_displace" =>
                    /\ Len(RosterIn(matches, P)) = p_capacity[P]
                    /\ W \in old
                    /\ \A x \in old \ {W} : RanksBefore(P, x, W)
                    /\ RanksBefore(P, a, W)
                    /\ Range(RosterIn(matches', P)) \cup ({last'.pulled} \ {None})
                           = (old \ {W}) \cup {a}
                    /\ stack' # <<>>
                    /\ Head(stack') \in RetriesOf(W)
             /\ \A j \in 1..(last'.k - 1) :
                    LET Q == a_ranking[a][j] IN
                    (/\ j <= Len(a_ranking[a])
                     /\ Q \in Programs
                     /\ Position(p_ranking[Q], a) # None
                     /\ Len(RosterIn(matches, Q)) = p_capacity[Q])
                        => /\ AllRankedBefore(matches, Q, a)
                           /\ RosterIn(matches', Q) = RosterIn(matches, Q)]_vars

\* a single applicant was turned away by the full first program of its list
\* and has displaced the weakest member of the second, who is retried next
C22_Witness ==
    /\ pc = "loop"
    /\ last.tag = "single_displace"
    /\ last.k = 2
    /\ Position(p_ranking[a_ranking[last.a][1]], last.a) # None
    /\ stack # <<>>
    /\ Head(stack) = Retry(last.out[1])

SpecAnyCapacity == InitAnyCapacity /\ [][Next]_vars

\* program P would take applicant a, given the matches m: P ranks a, has a
\* seat at all, and has a free seat or a member it ranks after a
Acceptable(m, P, a) ==
    /\ P \in Programs
    /\ Position(p_ranking[P], a) # None
    /\ p_capacity[P] > 0
    /\ \/ Len(RosterIn(m, P)) < p_capacity[P]
       \/ \E x \in Range(RosterIn(m, P)) : RanksBefore(P, a, x)

\* C23: every attempt for a single applicant a, a retry included, walks a's
\* list from its first position: a is placed at the first program of the list
\* that ranks it, has capacity above zero, and has a free seat or a weakest
\* member ranked after a; it joins the pool only when the list holds no such
\* program; no roster but that of the program that took a is changed.
C23_WalkOrder ==
    [][SingleStep =>
         LET a == last'.a
             k == last'.k
         IN  /\ \A j \in 1..(k - 1) :
                    j <= Len(a_ranking[a]) => ~Acceptable(matches, a_ranking[a][j], a)
             /\ IF last'.tag = "single_unmatched"
                THEN /\ k = Len(a_ranking[a]) + 1
                     /\ unmatched_a' = Append(unmatched_a, a)
                     /\ matches' = matches
                ELSE /\ k \in 1..Len(a_ranking[a])
                     /\ last'.p0 = a_ranking[a][k]
                     /\ Acceptable(matches, last'.p0, a)
                     /\ a \in Range(RosterIn(matches', last'.p0))
                     /\ \A Q \in Programs \ {last'.p0} :
                            RosterIn(matches', Q) = RosterIn(matches, Q)]_vars

\* a displaced single applicant is retried: it has passed the first program
\* of its list, which ranks it, and was placed at the second
C23_Witness ==
    /\ pc = "loop"
    /\ depth > 1
    /\ last.tag \in {"single_place", "single_displace"}
    /\ last.k = 2
    /\ Position(p_ranking[a_ranking[last.a][1]], last.a) # None

\* this step is one finished walk of attempt_couples_match
CoupleTags == {"same_place", "same_displace_one", "same_displace_two", "distinct_place",
               "distinct_displace", "couple_unmatched"}
CoupleStep == calls' = calls + 1 /\ last'.tag \in CoupleTags
\* the weakest members of the roster of P in m: P ranks every other member
\* before them
Weakest(m, P) ==
    {w \in Range(RosterIn(m, P)) :
        \A x \in Range(RosterIn(m, P)) \ {w} : RanksBefore(P, x, w)}
\* the pair at position j of the couple (a, b) is (P, P) for a program P that
\* ranks both, has at least two seats, and has exactly one of them free in m
OneSeatFree(m, a, b, j) ==
    LET P == a_ranking[a][j] IN
    /\ j <= Len(a_ranking[a]) /\ j <= Len(a_ranking[b])
    /\ a_ranking[b][j] = P
    /\ P \in Programs
    /\ Position(p_ranking[P], a) # None
    /\ Position(p_ranking[P], b) # None
    /\ p_capacity[P] >= 2
    /\ Len(RosterIn(m, P)) = p_capacity[P] - 1

\* C24: a couple (a, b) that meets a program P with exactly one free seat is
\* placed there exactly when P ranks both members before its weakest member
\* W1.  Then W1 is the one member removed and both members are added, which
\* fills P to its capacity (a partner of W1 among the members leaves with it);
\* a pair the couple passed over has a weakest member P does not rank after
\* both, and P's roster is as it was.
C24_OneSeatFree ==
    [][CoupleStep =>
         LET a == last'.a
             b == last'.b
             P == last'.p0
             old == Range(RosterIn(matches, P))
             pulled == {last'.pulled} \ {None}
         IN  /\ last'.tag = "same_displace_one" =>
                    /\ OneSeatFree(matches, a, b, last'.k)
                    /\ a_ranking[a][last'.k] = P
                    /\ last'.out[1] \in Weakest(matches, P)
                    /\ RanksBefore(P, a, last'.out[1])
                    /\ RanksBefore(P, b, last'.out[1])
                    /\ Range(RosterIn(matches', P)) \cup pulled
                           = (old \ {last'.out[1]}) \cup {a, b}
                    /\ Len(RosterIn(matches', P)) + Cardinality(pulled) = p_capacity[P]
             /\ \A j \in 1..(last'.k - 1) :
                    OneSeatFree(matches, a, b, j) =>
                        LET Q == a_ranking[a][j] IN
                        /\ \E w \in Weakest(matches, Q) :
                               ~(RanksBefore(Q, a, w) /\ RanksBefore(Q, b, w))
                        /\ Q \notin {last'.p0, last'.p1}
                               => RosterIn(matches', Q) = RosterIn(matches, Q)
             /\ (last'.k >= 1 /\ OneSeatFree(matches, a, b, last'.k))
                    => last'.tag = "same_displace_one"]_vars

\* a couple has taken the one free seat and the seat of the weakest member of
\* a program, which is full now
C24_Witness ==
    /\ pc = "loop"
    /\ last.tag = "same_displace_one"
    /\ Len(RosterOf(last.p0)) = p_capacity[last.p0]
    /\ InRoster(last.a, last.p0) /\ InRoster(last.b, last.p0)
    /\ ~InRoster(last.out[1], last.p0)

\* the pair at position j of the couple (a, b) passes the filters of
\* attempt_couples_match: both programs have seats, the first ranks a, the
\* second ranks b, and a program that is both has at least two seats
PassesFilters(a, b, j) ==
    LET P0 == a_ranking[a][j]
        P1 == a_ranking[b][j]
    IN  /\ Position(p_ranking[P0], a) # None
        /\ Position(p_ranking[P1], b) # None
        /\ p_capacity[P0] > 0
        /\ p_capacity[P1] > 0
        /\ P0 = P1 => p_capacity[P0] >= 2

\* C25: a couple (a, b) is placed only at a pair (P0, P1) of its list that
\* passes the filters (P0 ranks a, P1 ranks b, neither has capacity 0, and
\* P0 = P1 has capacity 2 or more); when no pair the walk looked at passes
\* them, no roster is changed, and the pool only gains the couple at the end
\* of its list.
C25_PairFilters ==
    [][CoupleStep =>
         LET a == last'.a
             b == last'.b
             k == last'.k
         IN  /\ last'.tag # "couple_unmatched" =>
                    /\ k \in 1..Len(a_ranking[a])
                    /\ last'.p0 = a_ranking[a][k]
                    /\ last'.p1 = a_ranking[b][k]
                    /\ PassesFilters(a, b, k)
                    /\ a \in Range(RosterIn(matches', last'.p0))
                    /\ b \in Range(RosterIn(matches', last'.p1))
             /\ (\A j \in 1..Min(k, Len(a_ranking[a])) : ~PassesFilters(a, b, j)) =>
                    /\ last'.tag = "couple_unmatched"
                    /\ matches' = matches
                    /\ unmatched_a' = Append(Append(unmatched_a, a), b)]_vars

\* a couple has passed a pair with a program of capacity 0 that ranks its
\* member, and was placed at the second pair of its list
C25_Witness ==
    /\ pc = "loop"
    /\ last.tag \in CoupleTags \ {"couple_unmatched"}
    /\ last.k = 2
    /\ Position(p_ranking[a_ranking[last.a][1]], last.a) # None
    /\ Position(p_ranking[a_ranking[last.b][1]], last.b) # None
    /\ \/ p_capacity[a_ranking[last.a][1]] = 0
       \/ p_capacity[a_ranking[last.b][1]] = 0

SpecReport == InitSmall /\ [][NextReport]_vars

\* the placed applicants whose first-listed program is the one whose roster
\* holds them
GotFirstChoice ==
    {a \in Applicants : a_ranking[a] # <<>> /\ InRoster(a, a_ranking[a][1])}

\* C26: the count of first choices that run_simulation reports is the number
\* of placed applicants whose first-listed program is the program that holds
\* them; a roster-mate that did not get its own first choice is not counted.
C26_FirstChoiceCount ==
    all_first_choice # NotCalled => all_first_choice = Cardinality(GotFirstChoice)

\* applicant a has been ranked by rank()
Ranked(a) ==
    /\ pc = "rank"
    /\ \E i \in 1..(next_unit - 1) : a \in {units[i][1], units[i][2]}

\* C27: the reach, realistic and safety buckets that rank() builds for an
\* applicant share no program: the applicant's list, their concatenation,
\* holds no program id twice.
C27_DisjointBuckets ==
    \A a \in Applicants : Ranked(a) => Injective(a_ranking[a])

\* C28: after rank() has processed a couple (A, B), B's list is A's list, and
\* every program on it has both A and B on its list of received applications.
C28_JointList ==
    pc = "rank" =>
        \A i \in 1..(next_unit - 1) :
            units[i][2] # None =>
                /\ a_ranking[units[i][2]] = a_ranking[units[i][1]]
                /\ \A p \in Range(a_ranking[units[i][1]]) :
                       {units[i][1], units[i][2]} \subseteq Range(p_ranking[p])

\* a couple has been ranked and its list holds programs of two buckets
C28_Witness ==
    /\ pc = "rank"
    /\ next_unit > 1
    /\ units[1][2] # None
    /\ reach(1) # <<>>
    /\ realistic(1) # <<>>
    /\ Len(a_ranking[2]) >= 2

\* of the distinct programs P0 and P1 exactly one has a free seat in the
\* matches m, and the other is full
OneSideFree(m, P0, P1) ==
    /\ P0 # None /\ P1 # None /\ P0 # P1
    /\ \/ Len(RosterIn(m, P0)) < p_capacity[P0] /\ Len(RosterIn(m, P1)) = p_capacity[P1]
       \/ Len(RosterIn(m, P0)) = p_capacity[P0] /\ Len(RosterIn(m, P1)) < p_capacity[P1]

\* C29: a call that takes a couple to a pair of distinct programs of which
\* exactly one has a free seat and the other is full ends normally, also when
\* the roster of the program with the free seat is empty: the run goes on.
C29_OneSideFreeCompletes ==
    [][(calls' = calls + 1 /\ last'.b # None
            /\ OneSideFree(matches, last'.p0, last'.p1))
           => pc' # "panic"]_vars

SpecReorder == InitSmall /\ [][NextReorder]_vars

\* applicant a would rather sit in program P than where it is: P is on its
\* list before every program that holds it
WouldRather(a, P) ==
    /\ Position(a_ranking[a], P) # None
    /\ \A Q \in Programs :
           InRoster(a, Q) => Position(a_ranking[a], P) < Position(a_ranking[a], Q)
\* a and P block the outcome: a would rather sit in P, and P, which ranks a
\* and has seats, has a free seat or a member it ranks after a
Blocks(a, P) ==
    /\ ~InRoster(a, P)
    /\ WouldRather(a, P)
    /\ Acceptable(matches, P, a)

\* C30: for an input without couples, the outcome of run_match has no
\* blocking pair and does not depend on the order of the applicants: a second
\* run on the applicants in another order gives every program the same set of
\* members and leaves the same set of applicants unmatched.
C30_OrderIndependent ==
    (ReturnedOk /\ NoCouples) =>
        /\ \A a \in Applicants : \A P \in Programs : ~Blocks(a, P)
        /\ run = 2 =>
               /\ first_run.result.kind = "Ok"
               /\ \A P \in Programs :
                      Range(RosterOf(P)) = Range(RosterIn(first_run.m, P))
               /\ Range(unmatched_a) = Range(first_run.u)

\* the second run, on another order of the applicants, has displaced an
\* applicant, filled the rosters in another order and left an applicant
\* unmatched
C30_Witness ==
    /\ ReturnedOk /\ NoCouples
    /\ run = 2
    /\ "single_displace" \in seen
    /\ matches # first_run.m
    /\ unmatched_a # <<>>
    /\ \E a \in Applicants : Placed(a) /\ ~InRoster(a, a_ranking[a][1])

\* the roster of P in the matches m holds as many members as P has seats
Full(m, P) == Len(RosterIn(m, P)) = p_capacity[P]
\* the largest position in P's rank list of a member of P's roster in m, 0
\* for a roster without members
WeakestPosition(m, P) ==
    IF RosterIn(m, P) = <<>> THEN 0
    ELSE CHOOSE x \in {Position(p_ranking[P], a) : a \in Range(RosterIn(m, P))} :
             \A a \in Range(RosterIn(m, P)) : Position(p_ranking[P], a) <= x

\* C31: in a run on an input without couples, a program whose roster is full
\* has a full roster after every further step of the run, and the position of
\* its weakest member in its rank list is not larger after the step.
C31_RostersImprove ==
    [][(NoCouples /\ pc = "loop" /\ pc' \in {"loop", "done"}) =>
           \A P \in Programs :
               Full(matches, P) =>
                   /\ Full(matches', P)
                   /\ WeakestPosition(matches', P) <= WeakestPosition(matches, P)]_vars

\* in a run without couples a single applicant has displaced the weakest
\* member of a program with two seats, which is full of members it ranks
\* before the displaced one
C31_Witness ==
    /\ NoCouples
    /\ pc = "loop"
    /\ last.tag = "single_displace"
    /\ p_capacity[last.p0] = 2
    /\ Full(matches, last.p0)
    /\ WeakestPosition(matches, last.p0) < Position(p_ranking[last.p0], last.out[1])

\* unmatched_a holds the sequence s as its first elements
StartsWith(s, t) == Len(s) <= Len(t) /\ SubSeq(t, 1, Len(s)) = s

\* C32: during a run_match call the unmatched pool only grows: a step of the
\* run keeps every applicant of the pool in it, in place, and no applicant of
\* the pool sits in a roster after the step.
C32_PoolOnlyGrows ==
    [][(pc = "loop" /\ pc' # "new") =>
           /\ StartsWith(unmatched_a, unmatched_a')
           /\ \A a \in Range(unmatched_a) : ~PlacedIn(matches', a)]_vars

\* with a couple in the unmatched pool, a later call of the run has displaced
\* a member of a roster
C32_Witness ==
    /\ pc = "loop"
    /\ \E a \in Range(unmatched_a) : a_couple[a] # None
    /\ last.tag \in Displacements
    /\ last.a \notin Range(unmatched_a)
    /\ \A j \in 1..Len(last.out) : last.out[j] \notin Range(unmatched_a)

====
